---- MODULE Spec2Model ----
(***************************************************************************)
(* A model of package geojson (src/geojson.go): the coordinate builders,   *)
(* the geometry, Feature and FeatureCollection factories, and the GeoJSON  *)
(* text that ToText (encoding/json's Marshal) produces for them.           *)
(*                                                                         *)
(* Go slices are modelled as headers [isnil, arr, len, cap] over a heap of *)
(* backing arrays, so that append's sharing of storage is visible.  JSON   *)
(* text is modelled as a tree of values together with its rendering as a   *)
(* string.                                                                 *)
(***************************************************************************)
EXTENDS Integers, Sequences, FiniteSets, TLC

VARIABLES
    obj,     \* SpecEnc: the object under construction (geometry or Feature)
    res,     \* SpecEnc / SpecFC: the result of the last ToText call
    mem,     \* SpecFC / SpecCoords: the heap of backing arrays
    colls,   \* SpecFC: the FeatureCollection values returned so far
    snaps,   \* SpecFC: the features each of them had when it was returned
    last,    \* SpecFC: the last With call, [c, fs, before]
    rest,    \* SpecCoords: the slice the caller passed as the variadic argument
    ret,     \* SpecCoords: what the builder call returned
    given    \* SpecCoords: the arguments supplied at the time of the call

vars == <<obj, res, mem, colls, snaps, last, rest, ret, given>>

(***************************************************************************)
(* Bounds of the model.                                                    *)
(***************************************************************************)
MaxRest  == 1   \* longest variadic argument list (positions, rings, ...)
MaxDepth == 2   \* deepest nesting of GeometryCollections
MaxColls == 3   \* FeatureCollection values kept in one run
MaxFs    == 2   \* most features in a collection that is encoded
MaxAdd   == 1   \* most features passed to NewFeatureCollection / With at once

Max(a, b) == IF a >= b THEN a ELSE b

\* All sequences over S of length at most n.
SeqsUpTo(S, n) == UNION {[1..k -> S] : k \in 0..n}

(***************************************************************************)
(* float64 values: finite numbers (integers here), NaN and the infinities. *)
(***************************************************************************)
Fin(n) == [cls |-> "fin", v |-> n]
NaN    == [cls |-> "nan", v |-> 0]
PosInf == [cls |-> "inf", v |-> 1]
NegInf == [cls |-> "inf", v |-> -1]

\* Go's == on float64: NaN is equal to nothing, itself included.
FloatEq(a, b) == a.cls # "nan" /\ b.cls # "nan" /\ a = b

Digit(d) == CASE d = 0 -> "0" [] d = 1 -> "1" [] d = 2 -> "2" [] d = 3 -> "3"
              [] d = 4 -> "4" [] d = 5 -> "5" [] d = 6 -> "6" [] d = 7 -> "7"
              [] d = 8 -> "8" [] d = 9 -> "9"

RECURSIVE Digits(_)
Digits(n) == IF n < 10 THEN Digit(n) ELSE Digits(n \div 10) \o Digit(n % 10)

\* fmt.Sprintf("%f", x): fixed point with six decimals; NaN, +Inf, -Inf.
Sprintf_f(x) ==
    CASE x.cls = "nan" -> "NaN"
      [] x.cls = "inf" -> IF x.v > 0 THEN "+Inf" ELSE "-Inf"
      [] x.cls = "fin" -> (IF x.v < 0 THEN "-" ELSE "")
                          \o Digits(IF x.v < 0 THEN -x.v ELSE x.v) \o ".000000"

(***************************************************************************)
(* Position, and its equality (struct ==, field by field).                 *)
(***************************************************************************)
Pos(lon, lat) == [Longitude |-> lon, Latitude |-> lat]

PosEq(p, q) == FloatEq(p.Longitude, q.Longitude) /\ FloatEq(p.Latitude, q.Latitude)

ZeroPosition == Pos(Fin(0), Fin(0))

(***************************************************************************)
(* JSON values and their text.                                             *)
(***************************************************************************)
JNull         == [k |-> "null", s |-> "",  keys |-> <<>>, vals |-> <<>>]
JStr(str)     == [k |-> "str",  s |-> str, keys |-> <<>>, vals |-> <<>>]
JNum(tok)     == [k |-> "num",  s |-> tok, keys |-> <<>>, vals |-> <<>>]
JArr(vs)      == [k |-> "arr",  s |-> "",  keys |-> <<>>, vals |-> vs]
JObj(ks, vs)  == [k |-> "obj",  s |-> "",  keys |-> ks,   vals |-> vs]

Quote(str) == "\"" \o str \o "\""

RECURSIVE Text(_)
RECURSIVE JoinVals(_, _)
RECURSIVE JoinMembers(_, _, _)
JoinVals(vs, i) ==
    IF i > Len(vs) THEN ""
    ELSE (IF i > 1 THEN "," ELSE "") \o Text(vs[i]) \o JoinVals(vs, i + 1)
JoinMembers(ks, vs, i) ==
    IF i > Len(ks) THEN ""
    ELSE (IF i > 1 THEN "," ELSE "") \o Quote(ks[i]) \o ":" \o Text(vs[i])
         \o JoinMembers(ks, vs, i + 1)
Text(j) ==
    CASE j.k = "null" -> "null"
      [] j.k = "str"  -> Quote(j.s)
      [] j.k = "num"  -> j.s
      [] j.k = "arr"  -> "[" \o JoinVals(j.vals, 1) \o "]"
      [] j.k = "obj"  -> "{" \o JoinMembers(j.keys, j.vals, 1) \o "}"

\* The number tokens encoding/json's scanner rejects.
ValidNumber(tok) == tok \notin {"NaN", "+Inf", "-Inf"}

(***************************************************************************)
(* Slices and the heap.  A slice is a header over a backing array of the   *)
(* heap; the nil slice has no array.  mem[a] is the whole array (its       *)
(* length is the capacity of the slices made over it).                     *)
(***************************************************************************)
NilSlice   == [isnil |-> TRUE,  arr |-> 0, len |-> 0, cap |-> 0]
EmptySlice == [isnil |-> FALSE, arr |-> 0, len |-> 0, cap |-> 0]

\* The elements s[0:len(s)].
Elems(m, s) == IF s.len = 0 THEN <<>> ELSE SubSeq(m[s.arr], 1, s.len)

\* make(T, 0, n)
Make(m, n, zero) ==
    [mem |-> Append(m, [i \in 1..n |-> zero]),
     s   |-> [isnil |-> FALSE, arr |-> Len(m) + 1, len |-> 0, cap |-> n]]

\* Element sizes in bytes (64-bit): two float64; a slice header; an
\* interface and a map pointer.
PositionSize   == 16
LinearRingSize == 24
FeatureSize    == 24

\* The allocator's small size classes (runtime/sizeclasses.go), up to 512.
SizeClasses == {8, 16, 24, 32, 48, 64, 80, 96, 112, 128, 144, 160, 176, 192,
                208, 224, 240, 256, 288, 320, 352, 384, 416, 448, 480, 512}

RoundUpSize(n) ==
    IF \E c \in SizeClasses : c >= n
    THEN CHOOSE c \in SizeClasses : c >= n /\ \A d \in SizeClasses : d >= n => c <= d
    ELSE n

\* runtime.growslice's new capacity: the needed length if it is more than
\* double the old capacity, else double (below 256 elements), rounded up to
\* the allocator's size class.
GrowCap(oldcap, newlen, esize) ==
    LET want == IF newlen > 2 * oldcap THEN newlen ELSE 2 * oldcap
    IN  RoundUpSize(want * esize) \div esize

\* append(s, xs...): in place when the capacity allows, else into a fresh,
\* larger array.  xs is read before anything is written (memmove).
GoAppend(m, s, xs, zero, esize) ==
    LET n == s.len + Len(xs) IN
    IF n <= s.cap
    THEN [mem |-> IF Len(xs) = 0 THEN m
                  ELSE [m EXCEPT ![s.arr] =
                          [i \in 1..s.cap |->
                              IF i > s.len /\ i <= n THEN xs[i - s.len] ELSE @[i]]],
          s   |-> [s EXCEPT !.len = n]]
    ELSE LET c == GrowCap(s.cap, n, esize)
             old == Elems(m, s)
         IN  [mem |-> Append(m, [i \in 1..c |->
                                   IF i <= s.len THEN old[i]
                                   ELSE IF i <= n THEN xs[i - s.len] ELSE zero]),
              s   |-> [isnil |-> FALSE, arr |-> Len(m) + 1, len |-> n, cap |-> c]]

\* The slice a call site passes for a variadic parameter: nil when no
\* argument is given, else a fresh array holding exactly the arguments.
Variadic(m, xs) ==
    IF Len(xs) = 0 THEN [mem |-> m, s |-> NilSlice]
    ELSE [mem |-> Append(m, xs),
          s   |-> [isnil |-> FALSE, arr |-> Len(m) + 1, len |-> Len(xs), cap |-> Len(xs)]]

\* The value of a slice: nil or not, and its elements, to the given depth of
\* nesting (depth 1: the elements are not slices).
RECURSIVE View(_, _, _)
View(m, s, depth) ==
    [isnil |-> s.isnil,
     elems |-> LET es == Elems(m, s)
               IN  [i \in 1..Len(es) |->
                      IF depth <= 1 THEN es[i] ELSE View(m, es[i], depth - 1)]]

(***************************************************************************)
(* The coordinate builders.                                                *)
(***************************************************************************)
\* A variant that skips the copy: append(cn, c0, c1).
NewLineStringCoordinates_NoCopy(m, c0, c1, cn) ==
    GoAppend(m, cn, <<c0, c1>>, ZeroPosition, PositionSize)

NewLineStringCoordinates(m, c0, c1, cn) ==
    LET a == Make(m, 2 + cn.len, ZeroPosition)
        b == GoAppend(a.mem, a.s, <<c0, c1>>, ZeroPosition, PositionSize)
    IN  GoAppend(b.mem, b.s, Elems(b.mem, cn), ZeroPosition, PositionSize)

\* A variant that checks closure against the second position, not the first.
NewLinearRing_SecondPosition(m, c0, c1, c2, c3, cn) ==
    LET a == Make(m, 4 + cn.len, ZeroPosition)
        b == GoAppend(a.mem, a.s, <<c0, c1, c2, c3>>, ZeroPosition, PositionSize)
        c == GoAppend(b.mem, b.s, Elems(b.mem, cn), ZeroPosition, PositionSize)
        coordinates == Elems(c.mem, c.s)
    IN  IF ~PosEq(coordinates[Len(coordinates)], c1)
        THEN [mem |-> c.mem, s |-> NilSlice, panic |-> TRUE]
        ELSE [mem |-> c.mem, s |-> c.s, panic |-> FALSE]

\* panic is TRUE when the call panics; it then returns nothing.
NewLinearRing(m, c0, c1, c2, c3, cn) ==
    LET a == Make(m, 4 + cn.len, ZeroPosition)
        b == GoAppend(a.mem, a.s, <<c0, c1, c2, c3>>, ZeroPosition, PositionSize)
        c == GoAppend(b.mem, b.s, Elems(b.mem, cn), ZeroPosition, PositionSize)
        coordinates == Elems(c.mem, c.s)
    IN  IF ~PosEq(coordinates[Len(coordinates)], c0)
        THEN [mem |-> c.mem, s |-> NilSlice, panic |-> TRUE]
        ELSE [mem |-> c.mem, s |-> c.s, panic |-> FALSE]

NewPolygonCoordinates(m, outerBoundary, holes) ==
    LET a == Make(m, 1 + holes.len, NilSlice)
        b == GoAppend(a.mem, a.s, <<outerBoundary>>, NilSlice, LinearRingSize)
    IN  GoAppend(b.mem, b.s, Elems(b.mem, holes), NilSlice, LinearRingSize)

(***************************************************************************)
(* Geometries.  A geometry is the value a pointer returned by a factory    *)
(* points to; t is its Go type.  A nil Geometry interface is NilGeometry.  *)
(***************************************************************************)
NilGeometry == [t |-> "nil"]

NewPoint(p) == [t |-> "*Point", coordinates |-> p]

NewMultiPoint(pn) == [t |-> "*MultiPoint", coordinates |-> pn]

NewLineString(m, c0, c1, cn) ==
    LET r == NewLineStringCoordinates(m, c0, c1, cn)
    IN  [mem |-> r.mem, g |-> [t |-> "*LineString", coordinates |-> r.s]]

NewMultiLineString(coordinates) ==
    [t |-> "*MultiLineString", coordinates |-> coordinates]

NewPolygon(m, outerBoundary, holes) ==
    LET r == NewPolygonCoordinates(m, outerBoundary, holes)
    IN  [mem |-> r.mem, g |-> [t |-> "*Polygon", coordinates |-> r.s]]

NewMultiPolygon(coordinates) ==
    [t |-> "*MultiPolygon", coordinates |-> coordinates]

NewGeometryCollection(geometries) ==
    [t |-> "*GeometryCollection", geometries |-> geometries]

\* How deep the coordinates of each variant nest ([]Position is 1).
CoordDepth(t) ==
    CASE t = "*Point" -> 0
      [] t = "*MultiPoint" -> 1
      [] t = "*LineString" -> 1
      [] t = "*MultiLineString" -> 2
      [] t = "*Polygon" -> 2
      [] t = "*MultiPolygon" -> 3

\* The geometry with the slices it holds read from the heap.
Deref(m, g) ==
    CASE g.t = "*Point" -> g
      [] g.t = "*GeometryCollection" -> [g EXCEPT !.geometries = View(m, @, 1)]
      [] OTHER -> [g EXCEPT !.coordinates = View(m, @, CoordDepth(g.t))]

(***************************************************************************)
(* Features and property mappings.                                         *)
(***************************************************************************)
\* The values put in property mappings: strings, and a channel, which
\* encoding/json cannot represent.  Absent marks a key the map does not hold.
AnyString(str) == [t |-> "string", s |-> str]
AnyChan        == [t |-> "chan",   s |-> ""]
Absent         == [t |-> "absent", s |-> ""]

\* The keys used, in the sorted order encoding/json writes map keys.
SortedKeys == <<"kind", "name">>

\* map[string]any: nil, or the values held under the keys.
NilMap            == [isnil |-> TRUE,  m |-> [kind |-> Absent, name |-> Absent]]
MakeMap(kind, nm) == [isnil |-> FALSE, m |-> [kind |-> kind, name |-> nm]]

NewFeature(geometry, properties) ==
    [t |-> "Feature", Geometry |-> geometry, Properties |-> properties]

ToFeature(g, properties) ==
    [t |-> "Feature", Geometry |-> g, Properties |-> properties]

\* A FeatureCollection is the slice itself.
NewFeatureCollection(features) == features

\* A variant with the operands swapped: append(features, c...).
With_Swapped(m, c, features) ==
    GoAppend(m, features, Elems(m, c), NewFeature(NilGeometry, NilMap), FeatureSize)

\* c.With(features...): append(c, features...), on the heap m.
With(m, c, features) ==
    GoAppend(m, c, Elems(m, features), NewFeature(NilGeometry, NilMap), FeatureSize)

\* &f, and &c for a FeatureCollection c (a slice value).
AddrOfFeature(f)           == [t |-> "*Feature", elem |-> f]
AddrOfFeatureCollection(c) == [t |-> "*FeatureCollection", elem |-> c]

\* The Type methods.
Type(o) ==
    CASE o.t = "*Point" -> "Point"
      [] o.t = "*MultiPoint" -> "MultiPoint"
      [] o.t = "*LineString" -> "LineString"
      [] o.t = "*MultiLineString" -> "MultiLineString"
      [] o.t = "*Polygon" -> "Polygon"
      [] o.t = "*MultiPolygon" -> "MultiPolygon"
      [] o.t = "*GeometryCollection" -> "GeometryCollection"
      [] o.t = "Feature" -> "Feature"
      [] o.t = "*Feature" -> "Feature"
      [] o.t = "*FeatureCollection" -> "FeatureCollection"

(***************************************************************************)
(* encoding/json, as far as the package uses it.  A result is the JSON     *)
(* value written, or the error that ended the call.                        *)
(***************************************************************************)
Ok(j)     == [err |-> "",  val |-> j]
Fail(msg) == [err |-> msg, val |-> JNull]

FirstError(rs) ==
    LET i == CHOOSE i \in 1..Len(rs) :
                 rs[i].err # "" /\ \A j \in 1..(i - 1) : rs[j].err = ""
    IN  Fail(rs[i].err)

\* A slice or array: its elements in order; the first failure ends it.
ArrayEncoder(rs) ==
    IF \E i \in 1..Len(rs) : rs[i].err # "" THEN FirstError(rs)
    ELSE Ok(JArr([i \in 1..Len(rs) |-> rs[i].val]))

\* A struct: its fields in declaration order under their json names.
StructEncoder(names, rs) ==
    IF \E i \in 1..Len(rs) : rs[i].err # "" THEN FirstError(rs)
    ELSE Ok(JObj(names, [i \in 1..Len(rs) |-> rs[i].val]))

\* Whether the scanner accepts the bytes a MarshalJSON method returned.
RECURSIVE ValidJSON(_)
ValidJSON(j) ==
    CASE j.k = "num" -> ValidNumber(j.s)
      [] j.k \in {"arr", "obj"} -> \A i \in 1..Len(j.vals) : ValidJSON(j.vals[i])
      [] OTHER -> TRUE

\* A value whose type has a MarshalJSON method: the method's bytes are
\* checked and compacted, and its error, or invalid bytes, fail the call.
MarshalerEncoder(r, typ) ==
    IF r.err # ""
    THEN Fail("json: error calling MarshalJSON for type " \o typ \o ": " \o r.err)
    ELSE IF ~ValidJSON(r.val)
    THEN Fail("json: error calling MarshalJSON for type " \o typ
              \o ": invalid character looking for beginning of value")
    ELSE Ok(r.val)

PositionMarshalJSON(p) ==
    Ok(JArr(<<JNum(Sprintf_f(p.Longitude)), JNum(Sprintf_f(p.Latitude))>>))

\* The coordinates field, by its static type: a Position, or a slice (null
\* when nil) of the next level down.
RECURSIVE EncodeCoordinates(_, _)
EncodeCoordinates(c, depth) ==
    IF depth = 0 THEN MarshalerEncoder(PositionMarshalJSON(c), "geojson.Position")
    ELSE IF c.isnil THEN Ok(JNull)
    ELSE ArrayEncoder([i \in 1..Len(c.elems) |->
                          EncodeCoordinates(c.elems[i], depth - 1)])

marshalGeoJSONGeometryWithCoordinates(g, c) ==
    StructEncoder(<<"type", "coordinates">>,
                  <<Ok(JStr(Type(g))), EncodeCoordinates(c, CoordDepth(g.t))>>)

\* MarshalJSON of *Point, *MultiPoint, *LineString, *MultiLineString,
\* *Polygon and *MultiPolygon.
GeometryMarshalJSON(g) == marshalGeoJSONGeometryWithCoordinates(g, g.coordinates)

\* A value of interface type Geometry: null when nil; a pointer with a
\* MarshalJSON method is encoded by it; *GeometryCollection has none, and is
\* encoded as what it points to, a slice of Geometry.
RECURSIVE EncodeGeometry(_)
EncodeGeometry(g) ==
    CASE g.t = "nil" -> Ok(JNull)
      [] g.t = "*GeometryCollection" ->
            IF g.geometries.isnil THEN Ok(JNull)
            ELSE ArrayEncoder([i \in 1..Len(g.geometries.elems) |->
                                  EncodeGeometry(g.geometries.elems[i])])
      [] OTHER -> MarshalerEncoder(GeometryMarshalJSON(g), "*geojson." \o Type(g))

\* A value of type any in a property mapping.
EncodeAny(v) ==
    CASE v.t = "string" -> Ok(JStr(v.s))
      [] v.t = "chan"   -> Fail("json: unsupported type: chan int")

\* map[string]any: null when nil, else an object with the keys sorted.
EncodeMap(p) ==
    IF p.isnil THEN Ok(JNull)
    ELSE LET ks == SelectSeq(SortedKeys, LAMBDA k : p.m[k] # Absent)
         IN  StructEncoder(ks, [i \in 1..Len(ks) |-> EncodeAny(p.m[ks[i]])])

FeatureMarshalJSON(f) ==
    StructEncoder(<<"type", "geometry", "properties">>,
                  <<Ok(JStr(Type(f))), EncodeGeometry(f.Geometry),
                    EncodeMap(f.Properties)>>)

\* A variant that never finds the value addressable.
EncodeFeature_NeverAddressable(f, addressable) ==
    StructEncoder(<<"geometry", "properties">>,
                  <<EncodeGeometry(f.Geometry), EncodeMap(f.Properties)>>)

\* A Feature value.  Only *Feature has MarshalJSON: it is called when the
\* value is addressable (a slice element, a pointer's target); otherwise the
\* value is encoded as a plain struct, by its two tagged fields.
EncodeFeature(f, addressable) ==
    IF addressable THEN MarshalerEncoder(FeatureMarshalJSON(f), "*geojson.Feature")
    ELSE StructEncoder(<<"geometry", "properties">>,
                       <<EncodeGeometry(f.Geometry), EncodeMap(f.Properties)>>)

\* c is the value of the collection: [isnil, elems].
FeatureCollectionMarshalJSON(c) ==
    StructEncoder(<<"type", "features">>,
                  <<Ok(JStr(Type(AddrOfFeatureCollection(c)))),
                    IF c.isnil THEN Ok(JNull)
                    ELSE ArrayEncoder([i \in 1..Len(c.elems) |->
                                          EncodeFeature(c.elems[i], TRUE)])>>)

\* json.Marshal of an Object: the value in the interface is not addressable.
JsonMarshal(o) ==
    CASE o.t = "Feature"  -> EncodeFeature(o, FALSE)
      [] o.t = "*Feature" -> EncodeFeature(o.elem, TRUE)
      [] o.t = "*FeatureCollection" ->
            MarshalerEncoder(FeatureCollectionMarshalJSON(o.elem),
                             "*geojson.FeatureCollection")
      [] OTHER -> EncodeGeometry(o)

\* A variant that hands back what was written before the error.
ToText_PartialOutput(o) ==
    LET r == JsonMarshal(o)
    IN  [bytesnil |-> FALSE,
         bytes    |-> IF r.err = "" THEN Text(r.val) ELSE "{",
         val      |-> r.val,
         err      |-> r.err]

\* ToText: the bytes (nil on error), the JSON value they spell, the error.
ToText(o) ==
    LET r == JsonMarshal(o)
    IN  [bytesnil |-> r.err # "",
         bytes    |-> IF r.err = "" THEN Text(r.val) ELSE "",
         val      |-> r.val,
         err      |-> r.err]

(***************************************************************************)
(* SpecEnc: a caller builds a geometry, wraps it in collections and in a   *)
(* Feature, and calls ToText on what it has.                               *)
(***************************************************************************)
P12  == Pos(Fin(1), Fin(2))
PNaN == Pos(NaN, Fin(-10))

EncPositions == {P12, PNaN}

PropertyMaps ==
    {NilMap,
     MakeMap(Absent, AnyString("x")),
     MakeMap(AnyString("y"), AnyString("x")),
     MakeMap(Absent, AnyChan)}

NoOut == [bytesnil |-> TRUE, bytes |-> "", val |-> JNull, err |-> ""]
NoRes == [called |-> FALSE, how |-> "", idx |-> 0, out |-> NoOut]
NoLast == [called |-> FALSE, c |-> 0, fs |-> <<>>, before |-> <<>>]
NoRet == [fn |-> "", panic |-> FALSE, s |-> NilSlice]

IsGeometry(o) == o.t \notin {"nil", "Feature", "FeatureCollection"}

\* A fixed Feature to fill collections with.
SampleFeature == ToFeature(NewPoint(P12), MakeMap(Absent, AnyString("x")))

\* How deep GeometryCollections nest in g.
RECURSIVE GCDepth(_)
RECURSIVE MaxGCDepth(_, _)
MaxGCDepth(es, i) ==
    IF i > Len(es) THEN 0 ELSE Max(GCDepth(es[i]), MaxGCDepth(es, i + 1))
GCDepth(g) ==
    IF g.t # "*GeometryCollection" THEN 0 ELSE 1 + MaxGCDepth(g.geometries.elems, 1)

\* What a call site passes for a variadic parameter: the arguments xs, or,
\* with no arguments, a spread empty slice (f(s...) with s empty, not nil).
Args(m, xs, spread) ==
    IF spread /\ Len(xs) = 0 THEN [mem |-> m, s |-> EmptySlice] ELSE Variadic(m, xs)

\* The caller builds one LineStringCoordinates per pair of positions.
RECURSIVE BuildLines(_, _, _)
BuildLines(m, ps, i) ==
    IF i > Len(ps) THEN [mem |-> m, hs |-> <<>>]
    ELSE LET r == NewLineStringCoordinates(m, ps[i][1], ps[i][2], NilSlice)
             t == BuildLines(r.mem, ps, i + 1)
         IN  [mem |-> t.mem, hs |-> <<r.s>> \o t.hs]

\* The closed rings the caller builds: p0, p1, p2, p0.
RingSpecs == {ps \in EncPositions \X EncPositions \X EncPositions :
                ~NewLinearRing(<<>>, ps[1], ps[2], ps[3], ps[1], NilSlice).panic}

RECURSIVE BuildRings(_, _, _)
BuildRings(m, ps, i) ==
    IF i > Len(ps) THEN [mem |-> m, hs |-> <<>>]
    ELSE LET r == NewLinearRing(m, ps[i][1], ps[i][2], ps[i][3], ps[i][1], NilSlice)
             t == BuildRings(r.mem, ps, i + 1)
         IN  [mem |-> t.mem, hs |-> <<r.s>> \o t.hs]

\* One PolygonCoordinates, without holes, per ring.
RECURSIVE BuildPolygons(_, _, _)
BuildPolygons(m, ps, i) ==
    IF i > Len(ps) THEN [mem |-> m, hs |-> <<>>]
    ELSE LET ring == NewLinearRing(m, ps[i][1], ps[i][2], ps[i][3], ps[i][1], NilSlice)
             poly == NewPolygonCoordinates(ring.mem, ring.s, NilSlice)
             more == BuildPolygons(poly.mem, ps, i + 1)
         IN  [mem |-> more.mem, hs |-> <<poly.s>> \o more.hs]

EncIdle == /\ mem = <<>> /\ colls = <<>> /\ snaps = <<>> /\ last = NoLast
           /\ rest = NilSlice /\ ret = NoRet /\ given = <<>>

EncFrame == UNCHANGED <<mem, colls, snaps, last, rest, ret, given>>

Built(o) == obj' = o /\ res' = NoRes /\ EncFrame

\* The caller starts from nothing: the first factory call builds a geometry.
Start == obj = NilGeometry

DoNewPoint ==
    /\ Start
    /\ \E p \in EncPositions : Built(NewPoint(p))

DoNewMultiPoint ==
    /\ Start
    /\ \E xs \in SeqsUpTo(EncPositions, MaxRest), spread \in BOOLEAN :
        /\ spread => Len(xs) = 0
        /\ LET a == Args(<<>>, xs, spread)
           IN  Built(Deref(a.mem, NewMultiPoint(a.s)))

DoNewLineString ==
    /\ Start
    /\ \E c0 \in EncPositions, c1 \in EncPositions,
       xs \in SeqsUpTo(EncPositions, MaxRest), spread \in BOOLEAN :
        /\ spread => Len(xs) = 0
        /\ LET a == Args(<<>>, xs, spread)
               r == NewLineString(a.mem, c0, c1, a.s)
           IN  Built(Deref(r.mem, r.g))

DoNewMultiLineString ==
    /\ Start
    /\ \E ps \in SeqsUpTo(EncPositions \X EncPositions, MaxRest), spread \in BOOLEAN :
        /\ spread => Len(ps) = 0
        /\ LET b == BuildLines(<<>>, ps, 1)
               a == Args(b.mem, b.hs, spread)
           IN  Built(Deref(a.mem, NewMultiLineString(a.s)))

DoNewPolygon ==
    /\ Start
    /\ \E o \in RingSpecs, hs \in SeqsUpTo(RingSpecs, MaxRest), spread \in BOOLEAN :
        /\ spread => Len(hs) = 0
        /\ LET b == BuildRings(<<>>, <<o>> \o hs, 1)
               a == Args(b.mem, Tail(b.hs), spread)
               r == NewPolygon(a.mem, b.hs[1], a.s)
           IN  Built(Deref(r.mem, r.g))

DoNewMultiPolygon ==
    /\ Start
    /\ \E ps \in SeqsUpTo(RingSpecs, MaxRest), spread \in BOOLEAN :
        /\ spread => Len(ps) = 0
        /\ LET b == BuildPolygons(<<>>, ps, 1)
               a == Args(b.mem, b.hs, spread)
           IN  Built(Deref(a.mem, NewMultiPolygon(a.s)))

\* A collection of the geometry built so far, first or last among fresh
\* Points; or, from the start, a collection of Points alone.
DoNewGeometryCollection ==
    /\ obj.t \notin {"Feature", "FeatureCollection"}
    /\ GCDepth(obj) < MaxDepth
    /\ \E xs \in SeqsUpTo({NewPoint(P12)}, MaxRest - 1), first \in BOOLEAN,
          spread \in BOOLEAN :
        LET gs == IF obj.t = "nil" THEN xs
                  ELSE IF first THEN <<obj>> \o xs ELSE xs \o <<obj>>
            a  == Args(<<>>, gs, spread)
        IN  /\ spread => Len(gs) = 0
            /\ Len(xs) = 0 => first
            /\ Built(Deref(a.mem, NewGeometryCollection(a.s)))

DoToFeature ==
    /\ IsGeometry(obj)
    /\ \E properties \in PropertyMaps : Built(ToFeature(obj, properties))

DoNewFeature ==
    /\ obj.t \notin {"Feature", "FeatureCollection"}
    /\ \E properties \in PropertyMaps : Built(NewFeature(obj, properties))

\* A collection of the Feature built so far, first or last among copies of
\* SampleFeature; or, from the start, a collection of no features.
DoNewFeatureCollection ==
    /\ obj.t \in {"nil", "Feature"}
    /\ \E xs \in SeqsUpTo({SampleFeature}, MaxFs - 1), first \in BOOLEAN,
          spread \in BOOLEAN :
        LET fs == IF obj.t = "nil" THEN <<>>
                  ELSE IF first THEN <<obj>> \o xs ELSE xs \o <<obj>>
            a  == Args(<<>>, fs, spread)
        IN  /\ spread => Len(fs) = 0
            /\ Len(xs) = 0 => first
            /\ obj.t = "nil" => Len(xs) = 0
            /\ Built([t |-> "FeatureCollection",
                      elem |-> View(a.mem, NewFeatureCollection(a.s), 1)])

\* ToText(g) for a geometry (a pointer), ToText(f) for a Feature value.
DoToText ==
    /\ obj.t \notin {"nil", "FeatureCollection"}
    /\ ~res.called
    /\ res' = [called |-> TRUE, how |-> "value", idx |-> 0, out |-> ToText(obj)]
    /\ UNCHANGED obj /\ EncFrame

\* ToText(&f) for a Feature, ToText(&c) for a FeatureCollection.
DoToTextAddr ==
    /\ obj.t \in {"Feature", "FeatureCollection"}
    /\ ~res.called
    /\ res' = [called |-> TRUE, how |-> "pointer", idx |-> 0,
               out |-> ToText(IF obj.t = "Feature" THEN AddrOfFeature(obj)
                              ELSE AddrOfFeatureCollection(obj.elem))]
    /\ UNCHANGED obj /\ EncFrame

InitEnc == obj = NilGeometry /\ res = NoRes /\ EncIdle

NextEnc ==
    \/ DoNewPoint
    \/ DoNewMultiPoint
    \/ DoNewLineString
    \/ DoNewMultiLineString
    \/ DoNewPolygon
    \/ DoNewMultiPolygon
    \/ DoNewGeometryCollection
    \/ DoToFeature
    \/ DoNewFeature
    \/ DoNewFeatureCollection
    \/ DoToText
    \/ DoToTextAddr

SpecEnc == InitEnc /\ [][NextEnc]_vars

(***************************************************************************)
(* Reading a JSON value, and the non-finite coordinates and unrepresentable*)
(* property values of an object.                                           *)
(***************************************************************************)
KeySet(j) == {j.keys[i] : i \in 1..Len(j.keys)}

HasKeys(j, ks) == j.k = "obj" /\ Len(j.keys) = Cardinality(ks) /\ KeySet(j) = ks

Member(j, key) == j.vals[CHOOSE i \in 1..Len(j.keys) : j.keys[i] = key]

Finite(p) == p.Longitude.cls = "fin" /\ p.Latitude.cls = "fin"

RECURSIVE CoordsFinite(_, _)
CoordsFinite(c, depth) ==
    IF depth = 0 THEN Finite(c)
    ELSE \A i \in 1..Len(c.elems) : CoordsFinite(c.elems[i], depth - 1)

RECURSIVE GeometryFinite(_)
GeometryFinite(g) ==
    CASE g.t = "nil" -> TRUE
      [] g.t = "*GeometryCollection" ->
            \A i \in 1..Len(g.geometries.elems) : GeometryFinite(g.geometries.elems[i])
      [] OTHER -> CoordsFinite(g.coordinates, CoordDepth(g.t))

\* Some coordinate in o is NaN or infinite.
HasNonFinite(o) ==
    CASE o.t = "Feature" -> ~GeometryFinite(o.Geometry)
      [] o.t = "FeatureCollection" ->
            \E i \in 1..Len(o.elem.elems) : ~GeometryFinite(o.elem.elems[i].Geometry)
      [] OTHER -> ~GeometryFinite(o)

PropertiesBad(p) ==
    ~p.isnil /\ \E i \in 1..Len(SortedKeys) : p.m[SortedKeys[i]].t = "chan"

\* Some property mapping in o holds a value JSON cannot represent.
HasBadProperty(o) ==
    CASE o.t = "Feature" -> PropertiesBad(o.Properties)
      [] o.t = "FeatureCollection" ->
            \E i \in 1..Len(o.elem.elems) : PropertiesBad(o.elem.elems[i].Properties)
      [] OTHER -> FALSE

\* The JSON array of one position.
IsPositionArray(j, p) ==
    j = JArr(<<JNum(Sprintf_f(p.Longitude)), JNum(Sprintf_f(p.Latitude))>>)

\* j is an array nested to the given depth over the coordinates c, element
\* by element in order.
RECURSIVE IsCoordinateArray(_, _, _)
IsCoordinateArray(j, c, depth) ==
    IF depth = 0 THEN IsPositionArray(j, c)
    ELSE /\ j.k = "arr"
         /\ Len(j.vals) = Len(c.elems)
         /\ \A i \in 1..Len(j.vals) : IsCoordinateArray(j.vals[i], c.elems[i], depth - 1)

\* j is the full encoding of Feature f: type, geometry and properties.
IsFeatureObject(j, f) ==
    /\ HasKeys(j, {"type", "geometry", "properties"})
    /\ Member(j, "type") = JStr("Feature")
    /\ Member(j, "geometry") = EncodeGeometry(f.Geometry).val
    /\ Member(j, "properties") = EncodeMap(f.Properties).val

\* j is {"type":"GeometryCollection","geometries":[...]} for collection g.
IsGeometryCollectionObject(j, g) ==
    /\ HasKeys(j, {"type", "geometries"})
    /\ Member(j, "type") = JStr(Type(g))
    /\ Member(j, "geometries").k = "arr"
    /\ Len(Member(j, "geometries").vals) = Len(g.geometries.elems)
    /\ \A i \in 1..Len(g.geometries.elems) :
          Member(j, "geometries").vals[i] = EncodeGeometry(g.geometries.elems[i]).val

Succeeded == res.called /\ res.out.err = ""

(***************************************************************************)
(* Claims checked under SpecEnc.                                           *)
(***************************************************************************)

\* C1: a Feature returned by NewFeature or ToFeature and handed to ToText
\* as the value it is encodes to an object with exactly the keys type,
\* geometry and properties: type "Feature", the geometry's own encoding and
\* the given mapping; NewPoint({1,2}).ToFeature({"name":"x"}) gives the
\* text of the example.
C1_FeatureValueText ==
    (Succeeded /\ res.how = "value" /\ obj.t = "Feature") =>
        /\ IsFeatureObject(res.out.val, obj)
        /\ obj = SampleFeature =>
              res.out.bytes = "{\"type\":\"Feature\",\"geometry\":{\"type\":\"Point\",\"coordinates\":[1.000000,2.000000]},\"properties\":{\"name\":\"x\"}}"

\* C2: a GeometryCollection, passed to ToText or nested as the geometry of
\* a Feature, encodes to {"type":"GeometryCollection","geometries":[...]}
\* with the children's own encodings in input order.
C2_GeometryCollectionObject ==
    /\ (Succeeded /\ obj.t = "*GeometryCollection") =>
          IsGeometryCollectionObject(res.out.val, obj)
    /\ (Succeeded /\ res.how = "pointer" /\ obj.t = "Feature"
          /\ obj.Geometry.t = "*GeometryCollection") =>
          IsGeometryCollectionObject(Member(res.out.val, "geometry"), obj.Geometry)

\* C7: a Point, MultiPoint, LineString, MultiLineString, Polygon or
\* MultiPolygon, the multi-variants of no elements included, encodes to an
\* object with exactly the keys type and coordinates: type is Type(), and
\* coordinates is an array nested to the variant's depth, in input order.
C7_CoordinatesArray ==
    (Succeeded /\ IsGeometry(obj) /\ obj.t # "*GeometryCollection") =>
        /\ HasKeys(res.out.val, {"type", "coordinates"})
        /\ Member(res.out.val, "type") = JStr(Type(obj))
        /\ IsCoordinateArray(Member(res.out.val, "coordinates"),
                             obj.coordinates, CoordDepth(obj.t))

\* C8: a non-empty FeatureCollection passed to ToText gives
\* {"type":"FeatureCollection","features":[...]} with one element per
\* feature, in collection order, each the feature's full encoding: an
\* object with the keys type ("Feature"), geometry and properties.
C8_FeatureCollectionText ==
    (Succeeded /\ obj.t = "FeatureCollection" /\ Len(obj.elem.elems) > 0) =>
        /\ res.out.val.k = "obj"
        /\ res.out.val.keys = <<"type", "features">>
        /\ res.out.val.vals[1] = JStr("FeatureCollection")
        /\ res.out.val.vals[2].k = "arr"
        /\ Len(res.out.val.vals[2].vals) = Len(obj.elem.elems)
        /\ \A i \in 1..Len(obj.elem.elems) :
              IsFeatureObject(res.out.val.vals[2].vals[i], obj.elem.elems[i])
        /\ obj.elem.elems = <<SampleFeature>> =>
              res.out.bytes = "{\"type\":\"FeatureCollection\",\"features\":[{\"type\":\"Feature\",\"geometry\":{\"type\":\"Point\",\"coordinates\":[1.000000,2.000000]},\"properties\":{\"name\":\"x\"}}]}"

\* A collection of two different features was encoded.
C8_Witness ==
    /\ Succeeded /\ obj.t = "FeatureCollection"
    /\ Len(obj.elem.elems) = 2
    /\ obj.elem.elems[1] # obj.elem.elems[2]

\* ToText returns either the complete text and no error, or an error and
\* no bytes.
AllOrNothing ==
    res.called =>
        /\ res.out.err # "" => res.out.bytesnil /\ res.out.bytes = ""
        /\ res.out.err = "" => ~res.out.bytesnil /\ res.out.bytes = Text(res.out.val)
                               /\ ValidJSON(res.out.val)

\* C9: ToText fails only when a value in some property mapping cannot be
\* represented; it then returns the error and no bytes, and otherwise the
\* complete text and no error.
C9_FailsOnlyOnProperties ==
    /\ (res.called /\ res.out.err # "") => HasBadProperty(obj)
    /\ AllOrNothing

\* C9 as amended: ToText fails only when a value in some property mapping
\* cannot be represented or some coordinate is NaN or infinite.
C9_FailsOnlyOnPropertiesOrNonFinite ==
    /\ (res.called /\ res.out.err # "") => (HasBadProperty(obj) \/ HasNonFinite(obj))
    /\ AllOrNothing

\* ToText failed on a Feature of finite coordinates with a bad property.
C9_Witness ==
    /\ res.called /\ res.out.err # "" /\ res.out.bytesnil
    /\ obj.t = "Feature" /\ HasBadProperty(obj) /\ ~HasNonFinite(obj)

(***************************************************************************)
(* SpecCoords: a caller passes a slice of its own as the variadic argument *)
(* of a coordinate builder, and overwrites elements of that slice later.   *)
(***************************************************************************)
CoordPositions == {P12, ZeroPosition, PNaN}

\* Two rings the caller built before, and the heap that holds them.
RingsBuilt ==
    LET a == NewLinearRing(<<>>, P12, ZeroPosition, ZeroPosition, P12, NilSlice)
        b == NewLinearRing(a.mem, ZeroPosition, P12, PNaN, ZeroPosition, NilSlice)
    IN  [mem |-> b.mem, rings |-> {a.s, b.s}]

BaseMem  == RingsBuilt.mem
RingPool == RingsBuilt.rings

\* The caller's slice s for f(..., s...): nil, or an array holding xs, with
\* or without a spare element of capacity after them.
CallerSlice(m, xs, spare, zero) ==
    IF Len(xs) = 0 /\ ~spare THEN [mem |-> m, s |-> NilSlice]
    ELSE [mem |-> Append(m, IF spare THEN Append(xs, zero) ELSE xs),
          s   |-> [isnil |-> FALSE, arr |-> Len(m) + 1, len |-> Len(xs),
                   cap |-> Len(xs) + (IF spare THEN 1 ELSE 0)]]

CoordsIdle == obj = NilGeometry /\ res = NoRes /\ colls = <<>> /\ snaps = <<>>
              /\ last = NoLast

CoordsFrame == UNCHANGED <<obj, res, colls, snaps, last>>

CallNewLineStringCoordinates ==
    /\ ret.fn = ""
    /\ \E c0 \in CoordPositions, c1 \in CoordPositions,
          xs \in SeqsUpTo(CoordPositions, MaxRest), spare \in BOOLEAN :
        LET a == CallerSlice(mem, xs, spare, ZeroPosition)
            r == NewLineStringCoordinates(a.mem, c0, c1, a.s)
        IN  /\ mem' = r.mem
            /\ rest' = a.s
            /\ ret' = [fn |-> "NewLineStringCoordinates", panic |-> FALSE, s |-> r.s]
            /\ given' = <<c0, c1>> \o xs
    /\ CoordsFrame

CallNewLinearRing ==
    /\ ret.fn = ""
    /\ \E c0 \in CoordPositions, c1 \in CoordPositions, c2 \in CoordPositions,
          c3 \in CoordPositions, xs \in SeqsUpTo(CoordPositions, MaxRest),
          spare \in BOOLEAN :
        LET a == CallerSlice(mem, xs, spare, ZeroPosition)
            r == NewLinearRing(a.mem, c0, c1, c2, c3, a.s)
        IN  /\ mem' = r.mem
            /\ rest' = a.s
            /\ ret' = [fn |-> "NewLinearRing", panic |-> r.panic, s |-> r.s]
            /\ given' = <<c0, c1, c2, c3>> \o xs
    /\ CoordsFrame

CallNewPolygonCoordinates ==
    /\ ret.fn = ""
    /\ \E outerBoundary \in RingPool, hs \in SeqsUpTo(RingPool, MaxRest),
          spare \in BOOLEAN :
        LET a == CallerSlice(mem, hs, spare, NilSlice)
            r == NewPolygonCoordinates(a.mem, outerBoundary, a.s)
        IN  /\ mem' = r.mem
            /\ rest' = a.s
            /\ ret' = [fn |-> "NewPolygonCoordinates", panic |-> FALSE, s |-> r.s]
            /\ given' = <<outerBoundary>> \o hs
    /\ CoordsFrame

\* The caller assigns to an element of the slice it passed.
OverwriteRest ==
    /\ ret.fn # ""
    /\ \E i \in 1..rest.len,
          v \in (IF ret.fn = "NewPolygonCoordinates" THEN RingPool \cup {NilSlice}
                 ELSE CoordPositions) :
        /\ mem[rest.arr][i] # v
        /\ mem' = [mem EXCEPT ![rest.arr][i] = v]
    /\ UNCHANGED <<rest, ret, given>>
    /\ CoordsFrame

InitCoords == /\ mem = BaseMem /\ rest = NilSlice /\ ret = NoRet /\ given = <<>>
              /\ CoordsIdle

NextCoords ==
    \/ CallNewLineStringCoordinates
    \/ CallNewLinearRing
    \/ CallNewPolygonCoordinates
    \/ OverwriteRest

SpecCoords == InitCoords /\ [][NextCoords]_vars

\* How many positions or rings each builder takes before the variadic ones.
Fixed(fn) ==
    CASE fn = "NewLineStringCoordinates" -> 2
      [] fn = "NewLinearRing" -> 4
      [] fn = "NewPolygonCoordinates" -> 1

\* C5: NewLinearRing panics, returning no ring, when the last position
\* supplied differs from the first; when it equals the first the call
\* returns the positions in input order, 4 + len(rest) of them, the first
\* equal to the last.
C5_RingClosure ==
    ret.fn = "NewLinearRing" =>
        LET p0    == given[1]
            lastp == given[Len(given)]
            ring  == Elems(mem, ret.s)
        IN  /\ ret.panic <=> ~PosEq(lastp, p0)
            /\ ret.panic => ret.s = NilSlice
            /\ ~ret.panic =>
                  /\ ring = given
                  /\ Len(ring) = 4 + rest.len
                  /\ Len(ring) >= 4
                  /\ PosEq(ring[1], ring[Len(ring)])

\* A ring of five positions was returned.
C5_Witness ==
    ret.fn = "NewLinearRing" /\ ~ret.panic /\ rest.len = 1 /\ ret.s.len = 5

\* The caller's slice no longer holds what was passed.
Overwritten ==
    rest.len > 0 /\ Elems(mem, rest) # SubSeq(given, Fixed(ret.fn) + 1, Len(given))

\* C10: what NewLineStringCoordinates, NewLinearRing and
\* NewPolygonCoordinates return lives in storage of its own: whatever the
\* caller later writes into the slice it passed, the value returned holds
\* the positions or rings supplied at the call, in order, 2, 4 or 1 more
\* than len(rest).
C10_FreshStorage ==
    (ret.fn # "" /\ ~ret.panic) =>
        /\ Elems(mem, ret.s) = given
        /\ ret.s.len = Fixed(ret.fn) + rest.len
        /\ ~ret.s.isnil
        /\ ret.s.arr # rest.arr
        /\ ret.s.arr > Len(BaseMem)

\* The caller overwrote an element after a builder returned.
C10_Witness ==
    /\ ret.fn = "NewPolygonCoordinates" /\ Overwritten
    /\ Elems(mem, ret.s) = given

(***************************************************************************)
(* SpecFC: a caller makes a FeatureCollection, extends the collections it  *)
(* holds with With, and encodes them.                                      *)
(***************************************************************************)
OtherFeature == ToFeature(NewPoint(ZeroPosition), NilMap)

FCFeatures == {SampleFeature, OtherFeature}

ZeroFeature == NewFeature(NilGeometry, NilMap)

FCIdle == obj = NilGeometry /\ rest = NilSlice /\ ret = NoRet /\ given = <<>>

FCFrame == UNCHANGED <<obj, rest, ret, given>>

\* c := NewFeatureCollection(fs...) with the features listed, or
\* NewFeatureCollection(s...) with a slice s of the caller's that has a
\* spare element of capacity.
MakeFeatureCollection ==
    /\ colls = <<>>
    /\ \E fs \in SeqsUpTo(FCFeatures, MaxAdd), spare \in BOOLEAN :
        LET a == CallerSlice(mem, fs, spare, ZeroFeature)
            c == NewFeatureCollection(a.s)
        IN  /\ mem' = a.mem
            /\ colls' = <<c>>
            /\ snaps' = <<Elems(a.mem, c)>>
    /\ last' = NoLast
    /\ res' = NoRes
    /\ FCFrame

\* d := colls[i].With(fs...)
DoWith ==
    /\ Len(colls) >= 1
    /\ Len(colls) < MaxColls
    /\ \E i \in 1..Len(colls), fs \in SeqsUpTo(FCFeatures, MaxAdd) :
        LET a == Variadic(mem, fs)
            r == With(a.mem, colls[i], a.s)
        IN  /\ mem' = r.mem
            /\ colls' = Append(colls, r.s)
            /\ snaps' = Append(snaps, Elems(r.mem, r.s))
            /\ last' = [called |-> TRUE, c |-> i, fs |-> fs,
                        before |-> Elems(mem, colls[i])]
    /\ res' = NoRes
    /\ FCFrame

\* ToText(&colls[i])
DoToTextCollection ==
    /\ ~res.called
    /\ \E i \in 1..Len(colls) :
        res' = [called |-> TRUE, how |-> "pointer", idx |-> i,
                out |-> ToText(AddrOfFeatureCollection(View(mem, colls[i], 1)))]
    /\ UNCHANGED <<mem, colls, snaps, last>>
    /\ FCFrame

InitFC == /\ mem = <<>> /\ colls = <<>> /\ snaps = <<>> /\ last = NoLast
          /\ res = NoRes /\ FCIdle

NextFC ==
    \/ MakeFeatureCollection
    \/ DoWith
    \/ DoToTextCollection

SpecFC == InitFC /\ [][NextFC]_vars

\* C3: every collection returned keeps exactly the features it had when it
\* was returned, whatever With calls follow: With on one collection never
\* changes another.
C3_NoRetroactiveMutation ==
    \A i \in 1..Len(colls) : Elems(mem, colls[i]) = snaps[i]

\* C4: an empty FeatureCollection, from NewFeatureCollection with no
\* features or from With with no features on an empty collection, encodes
\* to {"type":"FeatureCollection","features":[]}: features is an empty
\* array, never null.
C4_EmptyFeaturesArray ==
    (res.called /\ res.idx > 0 /\ colls[res.idx].len = 0) =>
        /\ res.out.err = ""
        /\ res.out.bytes = "{\"type\":\"FeatureCollection\",\"features\":[]}"
        /\ Member(res.out.val, "features") = JArr(<<>>)

\* C6: c.With(fs...) returns c's features in their order followed by fs in
\* the order given, len(c) + len(fs) of them.
C6_WithAppends ==
    last.called =>
        LET d == colls[Len(colls)]
        IN  /\ Elems(mem, d) = last.before \o last.fs
            /\ d.len = Len(last.before) + Len(last.fs)

\* With added a feature to a collection that held two different features.
C6_Witness ==
    /\ last.called
    /\ Len(last.before) = 2 /\ last.before[1] # last.before[2]
    /\ Len(last.fs) = 1
    /\ colls[Len(colls)].len = 3

====
